---- MODULE Spec2Model ----
(***************************************************************************)
(* Model of cmd/server/main.go: the bootstrap of the canvas server.        *)
(* start() resolves LOG_ENV, HOST and PORT from the environment, builds a  *)
(* zap logger, constructs the server, registers SIGTERM/SIGINT through     *)
(* signal.NotifyContext, runs one errgroup goroutine that calls s.Stop(),  *)
(* waits for it and returns the exit status; main() hands it to os.Exit.   *)
(*                                                                         *)
(* Strings that the code only compares or passes on (LOG_ENV, HOST) are    *)
(* TLA+ strings; the PORT value is a sequence of one-character strings so  *)
(* that strconv.Atoi can be computed character by character.               *)
(***************************************************************************)
EXTENDS Integers, Sequences, FiniteSets, TLC

VARIABLES
    env,          \* the process environment: name -> [ok, v] as os.LookupEnv sees it
    pc,           \* position of the main flow (line of main.go about to run)
    gpc,          \* position of the errgroup goroutine
    logEnv,       \* start(): logEnv
    log,          \* start(): log ("unset", "nil", or the profile of the logger)
    err,          \* start(): err of createLogger (TRUE = non-nil)
    printed,      \* number of fmt.Println("Error setting up the logger:", err)
    logRelease,   \* the logger carries the "release" field (log.With)
    defers,       \* start()'s deferred calls, most recent first
    host,         \* start(): host
    port,         \* start(): port
    srv,          \* the server.Options the server was built from, or <<>>
    registered,   \* signal.NotifyContext's registration is active
    ctxDone,      \* ctx is cancelled
    signals,      \* number of SIGTERM/SIGINT deliveries to the registration
    sigSeen,      \* which of the two signals were delivered
    stopCalls,    \* number of calls of s.Stop()
    stopResult,   \* "none" until s.Stop() returns, then "nil" or "err"
    egErr,        \* errgroup: the goroutine returned a non-nil error
    infoCalls,    \* number of log.Info("Error stopping server", ...) calls
    entries,      \* number of log entries the logger actually wrote
    syncCalls,    \* number of log.Sync() calls
    ret,          \* return value of start(), -1 while it has not returned
    exitCode      \* exit status of the process, -1 while it runs

vars == << env, pc, gpc, logEnv, log, err, printed, logRelease, defers, host,
           port, srv, registered, ctxDone, signals, sigSeen, stopCalls,
           stopResult, egErr, infoCalls, entries, syncCalls, ret, exitCode >>

(***************************************************************************)
(* Bounds of the model.                                                    *)
(***************************************************************************)
MaxSignals == 2
MaxPortLen == 2

DefaultPort == 8080

(***************************************************************************)
(* The environments explored.                                              *)
(***************************************************************************)
Digits == {"0", "1", "2", "3", "4", "5", "6", "7", "8", "9"}

DigitVal(c) ==
    CASE c = "0" -> 0 [] c = "1" -> 1 [] c = "2" -> 2 [] c = "3" -> 3
      [] c = "4" -> 4 [] c = "5" -> 5 [] c = "6" -> 6 [] c = "7" -> 7
      [] c = "8" -> 8 [] c = "9" -> 9

PortAlphabet == {"0", "9", "a", "-"}

RECURSIVE StringsUpTo(_)
StringsUpTo(n) ==
    IF n = 0 THEN { <<>> }
    ELSE LET shorter == StringsUpTo(n - 1)
         IN  shorter \cup { Append(s, c) : s \in shorter, c \in PortAlphabet }

PortStrings ==
    StringsUpTo(MaxPortLen)
      \cup { <<"a", "b", "c">>, <<"9", "0", "9", "0">>, <<"+", "8", "0">>,
             <<"8", "0", "8", "0">>, <<"7", "0", "0", "0", "0">>, <<" ", "8">> }

Absent(v) == [ok |-> FALSE, v |-> v]
Present(v) == [ok |-> TRUE, v |-> v]

LogEnvValues == {"production", "development", "staging", ""}
HostValues == {"0.0.0.0", ""}

Environments ==
    [ LOG_ENV : {Absent("")} \cup { Present(v) : v \in LogEnvValues },
      HOST    : {Absent("")} \cup { Present(v) : v \in HostValues },
      PORT    : {Absent(<<>>)} \cup { Present(v) : v \in PortStrings } ]

(***************************************************************************)
(* os.LookupEnv, strconv.Atoi and the three helpers of main.go.            *)
(***************************************************************************)
LookupEnv(name) == env[name]

getStringOrDefault_emptyIsUnset(name, defaultV) ==
    LET r == LookupEnv(name)
    IN  IF ~r.ok \/ r.v = "" THEN defaultV ELSE r.v

getStringOrDefault(name, defaultV) ==
    LET r == LookupEnv(name)
    IN  IF ~r.ok THEN defaultV ELSE r.v

\* The digit loop of strconv.Atoi: n = n*10 + int(ch), a syntax error on the
\* first byte that is no digit.  Result: [err, n].
RECURSIVE AtoiLoop(_, _, _)
AtoiLoop(s, i, n) ==
    IF i > Len(s) THEN [err |-> FALSE, n |-> n]
    ELSE IF s[i] \notin Digits THEN [err |-> TRUE, n |-> 0]
    ELSE AtoiLoop(s, i + 1, n * 10 + DigitVal(s[i]))

\* strconv.Atoi on a 64-bit build.  A string of 1 to 18 bytes takes the fast
\* path: an optional sign, then the digit loop; a lone sign or a non-digit
\* is a syntax error and no value of that length is out of range.  The
\* empty string takes the ParseInt path, which reports a syntax error.
\* (Every PORT value of the model is shorter than 19 bytes.)
Atoi(s) ==
    IF Len(s) = 0 THEN [err |-> TRUE, n |-> 0]
    ELSE LET signed == s[1] = "-" \/ s[1] = "+"
             body   == IF signed THEN Tail(s) ELSE s
         IN  IF Len(body) < 1 THEN [err |-> TRUE, n |-> 0]
             ELSE LET r == AtoiLoop(body, 1, 0)
                  IN  IF r.err THEN r
                      ELSE IF s[1] = "-" THEN [err |-> FALSE, n |-> 0 - r.n]
                      ELSE r

getIntOrDefault(name, defaultV) ==
    LET r == LookupEnv(name)
    IN  IF ~r.ok THEN defaultV
        ELSE LET a == Atoi(r.v)
             IN  IF a.err THEN defaultV ELSE a.n

\* zap.NewProduction / zap.NewDevelopment build the logger or fail; on
\* failure they return a nil logger with the error.  zap.NewNop never fails.
Built(profile) == { [log |-> profile, err |-> FALSE], [log |-> "nil", err |-> TRUE] }

createLogger_defaultDevelopment(e) ==
    CASE e = "production"  -> Built("production")
      [] e = "development" -> Built("development")
      [] OTHER             -> Built("development")

createLogger(e) ==
    CASE e = "production"  -> Built("production")
      [] e = "development" -> Built("development")
      [] OTHER             -> { [log |-> "nop", err |-> FALSE] }

(***************************************************************************)
(* Initial state: the process has just entered main().                     *)
(***************************************************************************)
Init ==
    /\ env \in Environments
    /\ pc = "l27"
    /\ gpc = "none"
    /\ logEnv = ""
    /\ log = "unset"
    /\ err = FALSE
    /\ printed = 0
    /\ logRelease = FALSE
    /\ defers = <<>>
    /\ host = ""
    /\ port = 0
    /\ srv = <<>>
    /\ registered = FALSE
    /\ ctxDone = FALSE
    /\ signals = 0
    /\ sigSeen = {}
    /\ stopCalls = 0
    /\ stopResult = "none"
    /\ egErr = FALSE
    /\ infoCalls = 0
    /\ entries = 0
    /\ syncCalls = 0
    /\ ret = -1
    /\ exitCode = -1

\* The process is still running (it has neither called os.Exit nor panicked).
Alive == pc \notin {"exited", "panicked"}

(***************************************************************************)
(* The main flow: start(), line by line.                                   *)
(***************************************************************************)
\* logEnv := getStringOrDefault("LOG_ENV", "development")
ReadLogEnv ==
    /\ pc = "l27"
    /\ logEnv' = getStringOrDefault("LOG_ENV", "development")
    /\ pc' = "l28"
    /\ UNCHANGED << env, gpc, log, err, printed, logRelease, defers, host,
                    port, srv, registered, ctxDone, signals, sigSeen,
                    stopCalls, stopResult, egErr, infoCalls, entries,
                    syncCalls, ret, exitCode >>

\* log, err := createLogger(logEnv)
CreateLogger ==
    /\ pc = "l28"
    /\ \E r \in createLogger(logEnv) :
          /\ log' = r.log
          /\ err' = r.err
    /\ pc' = "l29"
    /\ UNCHANGED << env, gpc, logEnv, printed, logRelease, defers, host,
                    port, srv, registered, ctxDone, signals, sigSeen,
                    stopCalls, stopResult, egErr, infoCalls, entries,
                    syncCalls, ret, exitCode >>

\* if err != nil { fmt.Println("Error setting up the logger:", err) }
CheckLoggerErr ==
    /\ pc = "l29"
    /\ printed' = IF err THEN printed + 1 ELSE printed
    /\ pc' = "l33"
    /\ UNCHANGED << env, gpc, logEnv, log, err, logRelease, defers, host,
                    port, srv, registered, ctxDone, signals, sigSeen,
                    stopCalls, stopResult, egErr, infoCalls, entries,
                    syncCalls, ret, exitCode >>

\* log = log.With(zap.String("release", release)).  With a field to add,
\* With clones the receiver: on a nil *zap.Logger that is a nil pointer
\* dereference, the goroutine panics and the Go runtime ends the process
\* with status 2 (no deferred call is registered yet).
LogWith ==
    /\ pc = "l33"
    /\ IF log = "nil"
       THEN /\ pc' = "panicked"
            /\ exitCode' = 2
            /\ UNCHANGED logRelease
       ELSE /\ pc' = "l35"
            /\ logRelease' = TRUE
            /\ UNCHANGED exitCode
    /\ UNCHANGED << env, gpc, logEnv, log, err, printed, defers, host, port,
                    srv, registered, ctxDone, signals, sigSeen, stopCalls,
                    stopResult, egErr, infoCalls, entries, syncCalls, ret >>

DeferSync_forgotten ==
    /\ pc = "l35"
    /\ pc' = "l41"
    /\ UNCHANGED << env, gpc, logEnv, log, err, printed, logRelease, defers,
                    host, port, srv, registered, ctxDone, signals, sigSeen,
                    stopCalls, stopResult, egErr, infoCalls, entries,
                    syncCalls, ret, exitCode >>

\* defer func() { _ = log.Sync() }()
DeferSync ==
    /\ pc = "l35"
    /\ defers' = << "sync" >> \o defers
    /\ pc' = "l41"
    /\ UNCHANGED << env, gpc, logEnv, log, err, printed, logRelease, host,
                    port, srv, registered, ctxDone, signals, sigSeen,
                    stopCalls, stopResult, egErr, infoCalls, entries,
                    syncCalls, ret, exitCode >>

\* host := getStringOrDefault("HOST", "localhost")
ReadHost ==
    /\ pc = "l41"
    /\ host' = getStringOrDefault("HOST", "localhost")
    /\ pc' = "l42"
    /\ UNCHANGED << env, gpc, logEnv, log, err, printed, logRelease, defers,
                    port, srv, registered, ctxDone, signals, sigSeen,
                    stopCalls, stopResult, egErr, infoCalls, entries,
                    syncCalls, ret, exitCode >>

\* port := getIntOrDefault("PORT", 8080)
ReadPort ==
    /\ pc = "l42"
    /\ port' = getIntOrDefault("PORT", DefaultPort)
    /\ pc' = "l44"
    /\ UNCHANGED << env, gpc, logEnv, log, err, printed, logRelease, defers,
                    host, srv, registered, ctxDone, signals, sigSeen,
                    stopCalls, stopResult, egErr, infoCalls, entries,
                    syncCalls, ret, exitCode >>

\* s := server.New(server.Options{Host: host, Log: log, Port: port})
NewServer ==
    /\ pc = "l44"
    /\ srv' = [Host |-> host, Log |-> log, Port |-> port]
    /\ pc' = "l52"
    /\ UNCHANGED << env, gpc, logEnv, log, err, printed, logRelease, defers,
                    host, port, registered, ctxDone, signals, sigSeen,
                    stopCalls, stopResult, egErr, infoCalls, entries,
                    syncCalls, ret, exitCode >>

\* ctx, stop := signal.NotifyContext(context.Background(), SIGTERM, SIGINT)
NotifyContext ==
    /\ pc = "l52"
    /\ registered' = TRUE
    /\ pc' = "l53"
    /\ UNCHANGED << env, gpc, logEnv, log, err, printed, logRelease, defers,
                    host, port, srv, ctxDone, signals, sigSeen, stopCalls,
                    stopResult, egErr, infoCalls, entries, syncCalls, ret,
                    exitCode >>

\* defer stop()
DeferStop ==
    /\ pc = "l53"
    /\ defers' = << "stop" >> \o defers
    /\ pc' = "l55"
    /\ UNCHANGED << env, gpc, logEnv, log, err, printed, logRelease, host,
                    port, srv, registered, ctxDone, signals, sigSeen,
                    stopCalls, stopResult, egErr, infoCalls, entries,
                    syncCalls, ret, exitCode >>

\* eg.Go(func() error { ... }): the goroutine starts at its first statement.
EgGo ==
    /\ pc = "l55"
    /\ gpc' = "l56"
    /\ pc' = "l63"
    /\ UNCHANGED << env, logEnv, log, err, printed, logRelease, defers, host,
                    port, srv, registered, ctxDone, signals, sigSeen,
                    stopCalls, stopResult, egErr, infoCalls, entries,
                    syncCalls, ret, exitCode >>

EgWait_noWait ==
    /\ pc = "l63"
    /\ ret' = IF egErr THEN 1 ELSE 0
    /\ pc' = "deferred"
    /\ UNCHANGED << env, gpc, logEnv, log, err, printed, logRelease, defers,
                    host, port, srv, registered, ctxDone, signals, sigSeen,
                    stopCalls, stopResult, egErr, infoCalls, entries,
                    syncCalls, exitCode >>

EgWait_ignoreErr ==
    /\ pc = "l63"
    /\ gpc = "returned"
    /\ ret' = 0
    /\ pc' = "deferred"
    /\ UNCHANGED << env, gpc, logEnv, log, err, printed, logRelease, defers,
                    host, port, srv, registered, ctxDone, signals, sigSeen,
                    stopCalls, stopResult, egErr, infoCalls, entries,
                    syncCalls, exitCode >>

\* if err := eg.Wait(); err != nil { return 1 }; return 0
\* Wait blocks until the goroutine has returned.
EgWait ==
    /\ pc = "l63"
    /\ gpc = "returned"
    /\ ret' = IF egErr THEN 1 ELSE 0
    /\ pc' = "deferred"
    /\ UNCHANGED << env, gpc, logEnv, log, err, printed, logRelease, defers,
                    host, port, srv, registered, ctxDone, signals, sigSeen,
                    stopCalls, stopResult, egErr, infoCalls, entries,
                    syncCalls, exitCode >>

\* The deferred calls run on return, last registered first: stop() ends the
\* signal registration and cancels ctx, then the closure calls log.Sync().
RunDeferred ==
    /\ pc = "deferred"
    /\ defers # <<>>
    /\ IF Head(defers) = "stop"
       THEN /\ registered' = FALSE
            /\ ctxDone' = TRUE
            /\ UNCHANGED syncCalls
       ELSE /\ syncCalls' = syncCalls + 1
            /\ UNCHANGED << registered, ctxDone >>
    /\ defers' = Tail(defers)
    /\ UNCHANGED << env, pc, gpc, logEnv, log, err, printed, logRelease,
                    host, port, srv, signals, sigSeen, stopCalls, stopResult,
                    egErr, infoCalls, entries, ret, exitCode >>

\* start() has returned to main().
Return ==
    /\ pc = "deferred"
    /\ defers = <<>>
    /\ pc' = "l23"
    /\ UNCHANGED << env, gpc, logEnv, log, err, printed, logRelease, defers,
                    host, port, srv, registered, ctxDone, signals, sigSeen,
                    stopCalls, stopResult, egErr, infoCalls, entries,
                    syncCalls, ret, exitCode >>

\* os.Exit(start())
OsExit ==
    /\ pc = "l23"
    /\ exitCode' = ret
    /\ pc' = "exited"
    /\ UNCHANGED << env, gpc, logEnv, log, err, printed, logRelease, defers,
                    host, port, srv, registered, ctxDone, signals, sigSeen,
                    stopCalls, stopResult, egErr, infoCalls, entries,
                    syncCalls, ret >>

(***************************************************************************)
(* The errgroup goroutine.                                                 *)
(***************************************************************************)
\* ctx.Done(): the call returns the context's channel, which the statement
\* discards; there is no receive, so the goroutine does not block here.
CtxDoneCall ==
    /\ Alive
    /\ gpc = "l56"
    /\ gpc' = "l57"
    /\ UNCHANGED << env, pc, logEnv, log, err, printed, logRelease, defers,
                    host, port, srv, registered, ctxDone, signals, sigSeen,
                    stopCalls, stopResult, egErr, infoCalls, entries,
                    syncCalls, ret, exitCode >>

\* err := s.Stop(): the call is made.
StopCall ==
    /\ Alive
    /\ gpc = "l57"
    /\ stopCalls' = stopCalls + 1
    /\ gpc' = "inStop"
    /\ UNCHANGED << env, pc, logEnv, log, err, printed, logRelease, defers,
                    host, port, srv, registered, ctxDone, signals, sigSeen,
                    stopResult, egErr, infoCalls, entries, syncCalls, ret,
                    exitCode >>

\* s.Stop() returns nil or an error; when it does is up to the server.
StopReturn ==
    /\ Alive
    /\ gpc = "inStop"
    /\ \E r \in {"nil", "err"} :
          /\ stopResult' = r
          /\ gpc' = IF r = "err" THEN "l58" ELSE "l61"
    /\ UNCHANGED << env, pc, logEnv, log, err, printed, logRelease, defers,
                    host, port, srv, registered, ctxDone, signals, sigSeen,
                    stopCalls, egErr, infoCalls, entries, syncCalls, ret,
                    exitCode >>

LogStopError_skipped ==
    /\ Alive
    /\ gpc = "l58"
    /\ gpc' = "l59"
    /\ UNCHANGED << env, pc, logEnv, log, err, printed, logRelease, defers,
                    host, port, srv, registered, ctxDone, signals, sigSeen,
                    stopCalls, stopResult, egErr, infoCalls, entries,
                    syncCalls, ret, exitCode >>

\* log.Info("Error stopping server", zap.Error(err)): the production and
\* development loggers write the entry, the no-op logger discards it.
LogStopError ==
    /\ Alive
    /\ gpc = "l58"
    /\ infoCalls' = infoCalls + 1
    /\ entries' = IF log = "nop" THEN entries ELSE entries + 1
    /\ gpc' = "l59"
    /\ UNCHANGED << env, pc, logEnv, log, err, printed, logRelease, defers,
                    host, port, srv, registered, ctxDone, signals, sigSeen,
                    stopCalls, stopResult, egErr, syncCalls, ret, exitCode >>

ReturnErr_neverDone ==
    /\ Alive
    /\ gpc = "l59"
    /\ egErr' = TRUE
    /\ gpc' = "lost"
    /\ UNCHANGED << env, pc, logEnv, log, err, printed, logRelease, defers,
                    host, port, srv, registered, ctxDone, signals, sigSeen,
                    stopCalls, stopResult, infoCalls, entries, syncCalls,
                    ret, exitCode >>

\* return err: the errgroup records the error and the goroutine is done.
ReturnErr ==
    /\ Alive
    /\ gpc = "l59"
    /\ egErr' = TRUE
    /\ gpc' = "returned"
    /\ UNCHANGED << env, pc, logEnv, log, err, printed, logRelease, defers,
                    host, port, srv, registered, ctxDone, signals, sigSeen,
                    stopCalls, stopResult, infoCalls, entries, syncCalls,
                    ret, exitCode >>

ReturnNil_loopAgain ==
    /\ Alive
    /\ gpc = "l61"
    /\ gpc' = "l56"
    /\ UNCHANGED << env, pc, logEnv, log, err, printed, logRelease, defers,
                    host, port, srv, registered, ctxDone, signals, sigSeen,
                    stopCalls, stopResult, egErr, infoCalls, entries,
                    syncCalls, ret, exitCode >>

\* return nil
ReturnNil ==
    /\ Alive
    /\ gpc = "l61"
    /\ gpc' = "returned"
    /\ UNCHANGED << env, pc, logEnv, log, err, printed, logRelease, defers,
                    host, port, srv, registered, ctxDone, signals, sigSeen,
                    stopCalls, stopResult, egErr, infoCalls, entries,
                    syncCalls, ret, exitCode >>

(***************************************************************************)
(* The operating system delivers SIGTERM or SIGINT while the registration  *)
(* of signal.NotifyContext is active: the first delivery cancels ctx, a    *)
(* later one is absorbed by the registration and changes nothing else.     *)
(***************************************************************************)
Signal ==
    /\ Alive
    /\ registered
    /\ signals < MaxSignals
    /\ \E sig \in {"SIGTERM", "SIGINT"} : sigSeen' = sigSeen \cup {sig}
    /\ signals' = signals + 1
    /\ ctxDone' = TRUE
    /\ UNCHANGED << env, pc, gpc, logEnv, log, err, printed, logRelease,
                    defers, host, port, srv, registered, stopCalls,
                    stopResult, egErr, infoCalls, entries, syncCalls, ret,
                    exitCode >>

MainStep ==
    \/ ReadLogEnv
    \/ CreateLogger
    \/ CheckLoggerErr
    \/ LogWith
    \/ DeferSync
    \/ ReadHost
    \/ ReadPort
    \/ NewServer
    \/ NotifyContext
    \/ DeferStop
    \/ EgGo
    \/ EgWait
    \/ RunDeferred
    \/ Return
    \/ OsExit

\* The goroutine's own steps; StopReturn is the server's.
GoroutineStep ==
    \/ CtxDoneCall
    \/ StopCall
    \/ LogStopError
    \/ ReturnErr
    \/ ReturnNil

Next ==
    \/ MainStep
    \/ GoroutineStep
    \/ StopReturn
    \/ Signal

Spec == Init /\ [][Next]_vars

\* The Go scheduler runs every runnable goroutine; nothing obliges the
\* server's Stop to return or the operating system to send a signal.
FairSpec == Spec /\ WF_vars(MainStep) /\ WF_vars(GoroutineStep)

(***************************************************************************)
(* Properties.                                                             *)
(***************************************************************************)
Exited == pc = "exited"

\* C1: s.Stop() is invoked only after SIGTERM or SIGINT has been delivered:
\* in no reachable state has Stop been called while no signal was received.
C1_StopOnlyAfterSignal == stopCalls > 0 => signals > 0

\* The two states of the shutdown coordination.
Phase == IF stopCalls = 0 THEN "AWAITING_SIGNAL" ELSE "STOPPING"

\* C2: Stop is called at most once, exactly once by the time the process
\* exits through os.Exit, whatever signals were delivered, and the phase
\* never goes back from STOPPING to AWAITING_SIGNAL.
C2_StopExactlyOnce ==
    /\ [](stopCalls <= 1 /\ (Exited => stopCalls = 1))
    /\ [][Phase = "STOPPING" => Phase' = "STOPPING"]_vars

C2_Witness ==
    /\ Exited
    /\ stopCalls = 1
    /\ signals >= 2
    /\ sigSeen = {"SIGTERM", "SIGINT"}

\* C3: start() returns 0 exactly when Stop returned nil and 1 exactly when
\* Stop returned an error, it returns nothing else, and os.Exit passes the
\* returned value on as the exit status.
C3_ExitStatusFromStop ==
    /\ ret \in {-1, 0, 1}
    /\ ret # -1 => /\ stopResult # "none"
                   /\ ret = 0 <=> stopResult = "nil"
                   /\ ret = 1 <=> stopResult = "err"
    /\ Exited => exitCode = ret

C3_Witness == Exited /\ exitCode = 1 /\ stopResult = "err" /\ signals = 0

\* C4 as stated: a failed Stop leaves exactly one "Error stopping server"
\* log entry before the exit with status 1, a successful Stop leaves none.
C4_OneEntryPerFailure ==
    /\ (Exited /\ stopResult = "err") => (entries = 1 /\ exitCode = 1)
    /\ stopResult = "nil" => entries = 0

\* C4 as amended: a failed Stop makes exactly one log.Info("Error stopping
\* server") call before start() returns 1; the call writes one entry under
\* the production and development profiles and none under the no-op
\* profile.  A successful Stop makes no such call and writes no entry.
C4_OneInfoCallPerFailure ==
    /\ (ret # -1 /\ stopResult = "err") =>
          /\ ret = 1
          /\ infoCalls = 1
          /\ entries = IF log = "nop" THEN 0 ELSE 1
    /\ (Exited /\ stopResult = "err") => exitCode = 1
    /\ stopResult = "nil" => (infoCalls = 0 /\ entries = 0)

C4_Witness ==
    /\ Exited
    /\ stopResult = "err"
    /\ log = "nop"
    /\ infoCalls = 1
    /\ entries = 0

\* C5: the main flow returns from start() and reaches os.Exit only after
\* the goroutine has finished, hence after Stop has returned.
C5_ExitAfterTask ==
    (ret # -1 \/ pc \in {"deferred", "l23", "exited"}) =>
        (gpc = "returned" /\ stopCalls = 1 /\ stopResult # "none")

C5_Witness == Exited /\ gpc = "returned" /\ stopResult = "nil" /\ ret = 0

\* C6: once a signal was delivered and Stop has returned, the process
\* eventually exits through os.Exit; and as long as Stop has been called
\* and has not returned, the main flow stays blocked in eg.Wait().
C6_ExitsOnceStopReturns ==
    /\ (signals > 0 /\ stopResult # "none") ~> Exited
    /\ []((stopCalls > 0 /\ stopResult = "none") => pc = "l63")

C6_Witness == Exited /\ signals > 0 /\ stopResult # "none" /\ syncCalls = 1

\* What a decimal integer is, independently of the parsing loop: an optional
\* sign followed by one or more digits, valued by the weights of its digits.
Unsigned(s) == IF Len(s) > 0 /\ s[1] \in {"+", "-"} THEN Tail(s) ELSE s

IsDecimal(s) ==
    /\ Len(Unsigned(s)) > 0
    /\ \A i \in 1..Len(Unsigned(s)) : Unsigned(s)[i] \in Digits

RECURSIVE Pow10(_)
Pow10(k) == IF k = 0 THEN 1 ELSE 10 * Pow10(k - 1)

RECURSIVE WeightedSum(_, _)
WeightedSum(b, i) ==
    IF i > Len(b) THEN 0
    ELSE DigitVal(b[i]) * Pow10(Len(b) - i) + WeightedSum(b, i + 1)

DecimalValue(s) ==
    IF s[1] = "-" THEN 0 - WeightedSum(Unsigned(s), 1)
    ELSE WeightedSum(Unsigned(s), 1)

\* The three configuration values have been resolved.
Resolved ==
    pc \notin {"l27", "l28", "l29", "l33", "l35", "l41", "l42", "panicked"}

\* C7: LOG_ENV and HOST resolve to the environment value whenever the
\* variable is present (the empty string included) and to "development" and
\* "localhost" only when it is absent; PORT resolves to the decimal integer
\* it spells when present and parseable, negative or out of the port range
\* included, and to 8080 otherwise.
C7_ResolvedConfiguration ==
    Resolved =>
      /\ logEnv = IF env.LOG_ENV.ok THEN env.LOG_ENV.v ELSE "development"
      /\ host = IF env.HOST.ok THEN env.HOST.v ELSE "localhost"
      /\ port = IF env.PORT.ok /\ IsDecimal(env.PORT.v)
                THEN DecimalValue(env.PORT.v) ELSE 8080
      /\ env.PORT = Present(<<"a", "b", "c">>) => port = 8080
      /\ env.PORT = Present(<<"9", "0", "9", "0">>) => port = 9090
      /\ env.PORT = Present(<<>>) => port = 8080
      /\ env.PORT = Present(<<"-", "9">>) => port = 0 - 9
      /\ env.PORT = Present(<<"7", "0", "0", "0", "0">>) => port = 70000

C7_Witness ==
    /\ Resolved
    /\ env.PORT = Present(<<"a", "b", "c">>)
    /\ port = 8080
    /\ env.HOST = Present("")
    /\ host = ""
    /\ ~env.LOG_ENV.ok
    /\ logEnv = "development"

\* The profile the LOG_ENV of the environment stands for.
ExpectedProfile ==
    IF ~env.LOG_ENV.ok THEN "development"
    ELSE IF env.LOG_ENV.v = "production" THEN "production"
    ELSE IF env.LOG_ENV.v = "development" THEN "development"
    ELSE "nop"

\* C8: createLogger builds the production logger for "production", the
\* development logger for "development" (the value an unset LOG_ENV resolves
\* to) and the no-op logger, without an error, for every other string, the
\* empty string included.
C8_LoggerProfile ==
    pc \notin {"l27", "l28"} =>
      /\ ~err => log = ExpectedProfile
      /\ ExpectedProfile = "nop" => (~err /\ log = "nop")

C8_Witness ==
    /\ pc = "l29"
    /\ env.LOG_ENV = Present("")
    /\ log = "nop"
    /\ ~err

\* C9: log.Sync() runs exactly once on every return of start(), after the
\* goroutine (and so any "Error stopping server" call) has finished and
\* before os.Exit.
C9_SyncOnceBeforeExit ==
    /\ syncCalls <= 1
    /\ pc \in {"l23", "exited"} => syncCalls = 1
    /\ syncCalls > 0 =>
          /\ ret # -1
          /\ gpc = "returned"
          /\ stopResult = "err" => infoCalls = 1

C9_Witness ==
    /\ pc = "l23"
    /\ syncCalls = 1
    /\ stopResult = "err"
    /\ infoCalls = 1
    /\ exitCode = -1

\* C10: a failure of createLogger is never fatal: start() goes on with the
\* logger it was handed and does not crash.
C10_LoggerFailureNotFatal == err => pc # "panicked"

====
